---- MODULE Spec2Model ----
(***************************************************************************)
(* A model of preprocessor.py: SQLPreprocessor.extract_tables,             *)
(* clean_dataframe, export_preprocessed_data and main.                     *)
(*                                                                         *)
(* Spec      : one run of main() over a source database and an output      *)
(*             directory, with every I/O call able to raise.               *)
(* SpecClean : clean_dataframe applied to one DataFrame, followed by       *)
(*             to_dict(orient='records').                                  *)
(***************************************************************************)
EXTENDS Integers, Sequences, FiniteSets, TLC

VARIABLES
    \* ---- the run (Spec) ----
    pc,                \* the call main() is about to make, "done" or "failed"
    conn,              \* the sqlite3 connection: "none", "open", "closed"
    src,               \* the source database: table -> [exists, rows]
    chunk_size,        \* rows per fetch (line 32)
    ti,                \* index in tables of the table being extracted
    cursor,            \* rows of the current table fetched so far
    has_read_data,     \* the chunk iterator has yielded a non-empty chunk
    batches,           \* table -> sizes of the chunks handed to clean_dataframe
    progress,          \* table -> the counts logged at line 39
    processed_records, \* line 33
    processed_data,    \* line 24: sequence of [table, data] in insertion order
    ei,                \* index in processed_data of the table being exported
    fs,                \* the output directory: [dir, file, marker]
    fs0,               \* the output directory as the run found it
    raised,            \* the call whose exception main() logs at line 97, or "none"
    \* ---- clean_dataframe alone (SpecClean) ----
    df,                \* the DataFrame passed in
    out,               \* the DataFrame returned
    records,           \* out.to_dict(orient='records')
    cpc                \* "input", "cleaned", "records"

vars == <<pc, conn, src, chunk_size, ti, cursor, has_read_data, batches, progress,
          processed_records, processed_data, ei, fs, fs0, raised,
          df, out, records, cpc>>

runVars == <<pc, conn, src, chunk_size, ti, cursor, has_read_data, batches, progress,
             processed_records, processed_data, ei, fs, fs0, raised>>

cleanVars == <<df, out, records, cpc>>

----------------------------------------------------------------------------
(* Bounds of the model. *)

\* rows of a table whose cells are drawn from RawCells
MaxRows == 5
\* rows of each table when all four tables are populated
MaxSmallRows == 1
\* largest chunk size tried (the code's 100000 scaled down)
MaxChunk == 2
\* rows of a DataFrame given to clean_dataframe directly
MaxFrameRows == 3

----------------------------------------------------------------------------
(* Cell values: the Python objects a DataFrame cell or a record field      *)
(* holds.  k is the Python type (nan and inf are floats), n the number,    *)
(* d the <<year, month, day, hour>> of a Timestamp, s the characters of a  *)
(* str.                                                                    *)

Cell(k, n, d, s) == [k |-> k, n |-> n, d |-> d, s |-> s]

None == Cell("None", 0, <<>>, <<>>)
NaN == Cell("nan", 0, <<>>, <<>>)
Inf == Cell("inf", 0, <<>>, <<>>)
NaT == Cell("NaT", 0, <<>>, <<>>)
PyInt(n) == Cell("int", n, <<>>, <<>>)
PyFloat(n) == Cell("float", n, <<>>, <<>>)
Str(s) == Cell("str", 0, <<>>, s)
Timestamp(y, mo, d, h) == Cell("Timestamp", 0, <<y, mo, d, h>>, <<>>)

\* pd.notnull / pd.isna on a scalar: None, NaN and NaT are missing, inf is not
isna(c) == c.k \in {"None", "nan", "NaT"}

----------------------------------------------------------------------------
(* strftime('%Y-%m-%d') and its inverse.                                   *)

Digits == <<"0", "1", "2", "3", "4", "5", "6", "7", "8", "9">>

Pow10(e) == IF e = 0 THEN 1 ELSE IF e = 1 THEN 10 ELSE IF e = 2 THEN 100 ELSE 1000

\* n as w decimal digits, zero padded
Pad(n, w) == [i \in 1..w |-> Digits[((n \div Pow10(w - i)) % 10) + 1]]

strftime(c) == Str(Pad(c.d[1], 4) \o <<"-">> \o Pad(c.d[2], 2) \o <<"-">> \o Pad(c.d[3], 2))

IsDigit(ch) == \E i \in 1..10 : Digits[i] = ch

DigitVal(ch) == (CHOOSE i \in 1..10 : Digits[i] = ch) - 1

RECURSIVE ParseNum(_)
ParseNum(s) == IF s = <<>> THEN 0
               ELSE 10 * ParseNum(SubSeq(s, 1, Len(s) - 1)) + DigitVal(s[Len(s)])

\* s has the form YYYY-MM-DD
IsYMD(s) == /\ Len(s) = 10
            /\ s[5] = "-" /\ s[8] = "-"
            /\ \A i \in {1, 2, 3, 4, 6, 7, 9, 10} : IsDigit(s[i])

\* the <<year, month, day>> a YYYY-MM-DD string encodes
ParseYMD(s) == <<ParseNum(SubSeq(s, 1, 4)), ParseNum(SubSeq(s, 6, 7)), ParseNum(SubSeq(s, 9, 10))>>

----------------------------------------------------------------------------
(* DataFrames.  A frame is [dtype, rows]: dtype maps each column to its    *)
(* pandas dtype, rows is the sequence of rows, each a column -> cell map.  *)

columns == {"col"}

Frame(dtype, rows) == [dtype |-> dtype, rows |-> rows]

AnyMissing(frame, c) == \E i \in 1..Len(frame.rows) : isna(frame.rows[i][c])

\* The value 0 stored into a column of the given dtype: a float64 column
\* holds it as 0.0, an object column as the int 0.
ZeroIn(dtype) == IF dtype = "float64" THEN PyFloat(0) ELSE PyInt(0)

\* Storing 0 where cells are missing: int64 and float64 keep their dtype,
\* a datetime64 column cannot hold 0 and is cast to object.
DtypeAfterFill(frame, c) ==
    IF frame.dtype[c] = "datetime64" /\ AnyMissing(frame, c) THEN "object"
    ELSE frame.dtype[c]

FillMissing(frame) ==
    LET dt == [c \in columns |-> DtypeAfterFill(frame, c)]
    IN  Frame(dt, [i \in 1..Len(frame.rows) |->
                     [c \in columns |->
                        IF isna(frame.rows[i][c]) THEN ZeroIn(dt[c])
                        ELSE frame.rows[i][c]]])

\* line 48: df.replace([pd.NA, pd.NaT, None], 0)
replace_missing(frame) == FillMissing(frame)

\* line 49: df.where(pd.notnull(df), 0)
where_notnull(frame) == FillMissing(frame)

\* line 51: df.select_dtypes(include=['datetime64']).columns
date_columns(frame) == {c \in columns : frame.dtype[c] = "datetime64"}

\* lines 52-53: df[col] = df[col].dt.strftime('%Y-%m-%d')
format_dates(frame) ==
    Frame([c \in columns |-> IF c \in date_columns(frame) THEN "object" ELSE frame.dtype[c]],
          [i \in 1..Len(frame.rows) |->
             [c \in columns |->
                IF c \in date_columns(frame) THEN strftime(frame.rows[i][c])
                ELSE frame.rows[i][c]]])

clean_dataframe(frame) == format_dates(where_notnull(replace_missing(frame)))

\* chunk.to_dict(orient='records'): one record per row, in row order
to_dict(frame) == frame.rows

\* json.dump accepts str, int and float (nan and inf included); a Timestamp
\* raises TypeError
JsonSerializable(data) ==
    \A i \in 1..Len(data) : \A c \in columns : data[i][c].k # "Timestamp"

----------------------------------------------------------------------------
(* SpecClean: clean_dataframe on one DataFrame.                            *)

RECURSIVE SeqsUpTo(_, _)
SeqsUpTo(S, n) ==
    IF n = 0 THEN {<<>>}
    ELSE LET shorter == SeqsUpTo(S, n - 1)
         IN  shorter \cup {Append(q, x) : q \in {r \in shorter : Len(r) = n - 1}, x \in S}

Timestamps == {Timestamp(2023, 5, 14, 10), Timestamp(2023, 5, 14, 0), Timestamp(1999, 12, 31, 23)}

\* the cells a column of each dtype can hold
CellsOf(dtype) ==
    CASE dtype = "int64" -> {PyInt(1), PyInt(2)}
      [] dtype = "float64" -> {PyFloat(1), NaN, Inf}
      [] dtype = "object" -> {None, PyInt(1), Str(<<"a">>)}
      [] dtype = "datetime64" -> Timestamps \cup {NaT}

Dtypes == {"int64", "float64", "object", "datetime64"}

OneColumnFrame(dtype, cells) ==
    Frame([c \in columns |-> dtype], [i \in 1..Len(cells) |-> [c \in columns |-> cells[i]]])

InputFrames ==
    UNION {{OneColumnFrame(dt, cells) : cells \in SeqsUpTo(CellsOf(dt), MaxFrameRows)} : dt \in Dtypes}

EmptyFrame == Frame([c \in columns |-> "object"], <<>>)

IdleRun ==
    /\ pc = "idle" /\ conn = "none" /\ src = <<>> /\ chunk_size = 1 /\ ti = 1
    /\ cursor = 0 /\ has_read_data = FALSE /\ batches = <<>> /\ progress = <<>>
    /\ processed_records = <<>> /\ processed_data = <<>> /\ ei = 1
    /\ fs = <<>> /\ fs0 = <<>> /\ raised = "none"

InitClean ==
    /\ IdleRun
    /\ df \in InputFrames
    /\ out = EmptyFrame
    /\ records = <<>>
    /\ cpc = "input"

\* line 37: chunk = self.clean_dataframe(chunk)
CallClean ==
    /\ cpc = "input"
    /\ out' = clean_dataframe(df)
    /\ cpc' = "cleaned"
    /\ UNCHANGED <<df, records>>
    /\ UNCHANGED runVars

\* line 38: chunk.to_dict(orient='records')
CallToDict ==
    /\ cpc = "cleaned"
    /\ records' = to_dict(out)
    /\ cpc' = "records"
    /\ UNCHANGED <<df, out>>
    /\ UNCHANGED runVars

NextClean == CallClean \/ CallToDict

SpecClean == InitClean /\ [][NextClean]_vars

----------------------------------------------------------------------------
(* The source database and the chunked read of pandas.read_sql_query.      *)

\* line 22
tables == <<"tb_emr_surgery_info", "tb_encounter", "tb_person_mtr", "tb_mig_implant_description">>

TableNames == {tables[i] : i \in 1..Len(tables)}

Row(cell) == [c \in columns |-> cell]

\* fetchmany losing the first row of every chunk after the first
fetchmany_drops_row(rows, pos, size) ==
    SubSeq(rows, IF pos = 0 THEN 1 ELSE pos + 2,
           IF pos + size <= Len(rows) THEN pos + size ELSE Len(rows))

\* fetchmany returning one row more than asked for
fetchmany_oversize(rows, pos, size) ==
    SubSeq(rows, pos + 1, IF pos + size + 1 <= Len(rows) THEN pos + size + 1 ELSE Len(rows))

\* cursor.fetchmany(size) once `pos` rows have been fetched
fetchmany(rows, pos, size) ==
    SubSeq(rows, pos + 1, IF pos + size <= Len(rows) THEN pos + size ELSE Len(rows))

\* The dtype pandas infers for a column of one chunk (coerce_float=True):
\* ints become int64, ints and floats (or either with NULLs) float64,
\* anything with a str, an all-NULL column or no rows at all object.
InferDtype(cells) ==
    IF cells = <<>> THEN "object"
    ELSE IF \E i \in 1..Len(cells) : cells[i].k \notin {"None", "int", "float", "nan", "inf"}
         THEN "object"
    ELSE IF \A i \in 1..Len(cells) : cells[i].k = "None" THEN "object"
    ELSE IF \A i \in 1..Len(cells) : cells[i].k = "int" THEN "int64"
    ELSE "float64"

\* A cell as a column of the inferred dtype stores it
Coerce(dtype, cell) ==
    IF dtype = "float64"
    THEN IF cell.k = "None" THEN NaN
         ELSE IF cell.k = "int" THEN PyFloat(cell.n)
         ELSE cell
    ELSE cell

\* The DataFrame read_sql_query yields for one fetched chunk
ReadFrame(chunk) ==
    LET dt == [c \in columns |-> InferDtype([i \in 1..Len(chunk) |-> chunk[i][c]])]
    IN  Frame(dt, [i \in 1..Len(chunk) |-> [c \in columns |-> Coerce(dt[c], chunk[i][c])]])

\* lines 37-38 on one chunk
CleanedRecords(chunk) == to_dict(clean_dataframe(ReadFrame(chunk)))

----------------------------------------------------------------------------
(* The output directory.                                                   *)

\* a file of the directory: st is "absent", "stale" (left by an earlier
\* run), "partial" (opened for writing, not completely written) or
\* "written" (json.dump returned); data is what json.dump wrote
File(st, data) == [st |-> st, data |-> data]

Absent == File("absent", <<>>)
Stale == File("stale", <<>>)

Dir(exists, stale, marker) ==
    [dir |-> exists,
     file |-> [t \in TableNames |-> IF t \in stale THEN Stale ELSE Absent],
     marker |-> marker]

NoDir == Dir(FALSE, {}, "absent")

\* the directory before the run: missing, or holding what earlier runs left
InitialDirs ==
    {NoDir} \cup {Dir(TRUE, stale, m) : stale \in {{}, {tables[1]}, TableNames},
                                        m \in {"absent", "stale"}}

MarkerExists(d) == d.marker # "absent"

----------------------------------------------------------------------------
(* Spec: one run of main().                                                *)

Missing == [exists |-> FALSE, rows |-> <<>>]

Table(rows) == [exists |-> TRUE, rows |-> rows]

\* cells SQLite hands to Python: NULL, an INTEGER, the REAL infinity (9e999)
RawCells == {None, PyInt(1), Inf}

IntRows(n) == [i \in 1..n |-> Row(PyInt(i))]

\* every table missing or holding up to MaxSmallRows integer rows
SmallSources == [TableNames -> {Missing} \cup {Table(IntRows(n)) : n \in 0..MaxSmallRows}]

\* the first table holding any rows of RawCells, the others empty
RichSources ==
    {[t \in TableNames |-> IF t = tables[1] THEN Table([i \in 1..Len(cells) |-> Row(cells[i])])
                           ELSE Table(<<>>)] : cells \in SeqsUpTo(RawCells, MaxRows)}

IdleClean == df = EmptyFrame /\ out = EmptyFrame /\ records = <<>> /\ cpc = "idle"

Init ==
    /\ IdleClean
    /\ pc = "connect"
    /\ conn = "none"
    /\ \/ src \in SmallSources /\ fs \in InitialDirs
       \/ src \in RichSources /\ fs = NoDir
    /\ fs0 = fs
    /\ chunk_size \in 1..MaxChunk
    /\ ti = 1
    /\ cursor = 0
    /\ has_read_data = FALSE
    /\ batches = [t \in TableNames |-> <<>>]
    /\ progress = [t \in TableNames |-> <<>>]
    /\ processed_records = <<>>
    /\ processed_data = <<>>
    /\ ei = 1
    /\ raised = "none"

table == tables[ti]

\* lines 96-98: the exception of `call` leaves main()
Raise(call) ==
    /\ pc' = "failed"
    /\ raised' = call

\* line 19
Connect ==
    /\ pc = "connect"
    /\ conn' = "open"
    /\ pc' = "count"
    /\ UNCHANGED <<cleanVars, src, chunk_size, ti, cursor, has_read_data, batches, progress,
                   processed_records, processed_data, ei, fs, fs0, raised>>

ConnectRaises ==
    /\ pc = "connect"
    /\ Raise("connect")
    /\ UNCHANGED <<cleanVars, conn, src, chunk_size, ti, cursor, has_read_data, batches, progress,
                   processed_records, processed_data, ei, fs, fs0>>

\* lines 26-33: the COUNT(*) query returns, the table's list starts empty
CountQuery ==
    /\ pc = "count"
    /\ src[table].exists
    /\ processed_records' = <<>>
    /\ cursor' = 0
    /\ has_read_data' = FALSE
    /\ pc' = "fetch"
    /\ UNCHANGED <<cleanVars, conn, src, chunk_size, ti, batches, progress, processed_data,
                   ei, fs, fs0, raised>>

\* line 28 raises: the table is missing, or the query fails
CountQueryRaises ==
    /\ pc = "count"
    /\ Raise("count")
    /\ UNCHANGED <<cleanVars, conn, src, chunk_size, ti, cursor, has_read_data, batches, progress,
                   processed_records, processed_data, ei, fs, fs0>>

\* line 41, then the next table of line 25, or line 43 after the last one
EndOfTable(data) ==
    /\ processed_data' = Append(processed_data, [table |-> table, data |-> data])
    /\ IF ti < Len(tables)
       THEN ti' = ti + 1 /\ pc' = "count"
       ELSE ti' = ti /\ pc' = "close"

\* lines 35-39: one fetch of the chunk iterator and the loop body on what it
\* yields.  An empty fetch ends the loop; when it is the first fetch the
\* iterator still yields one empty DataFrame, which the body processes.
FetchChunk ==
    /\ pc = "fetch"
    /\ LET chunk == fetchmany(src[table].rows, cursor, chunk_size)
           extended == processed_records \o CleanedRecords(chunk)
       IN  IF chunk # <<>>
           THEN /\ processed_records' = extended
                /\ batches' = [batches EXCEPT ![table] = Append(@, Len(chunk))]
                /\ progress' = [progress EXCEPT ![table] = Append(@, Len(extended))]
                /\ cursor' = cursor + Len(chunk)
                /\ has_read_data' = TRUE
                /\ UNCHANGED <<pc, ti, processed_data>>
           ELSE IF ~has_read_data
           THEN /\ processed_records' = extended
                /\ batches' = [batches EXCEPT ![table] = Append(@, 0)]
                /\ progress' = [progress EXCEPT ![table] = Append(@, Len(extended))]
                /\ EndOfTable(extended)
                /\ UNCHANGED <<cursor, has_read_data>>
           ELSE /\ EndOfTable(processed_records)
                /\ UNCHANGED <<processed_records, batches, progress, cursor, has_read_data>>
    /\ UNCHANGED <<cleanVars, conn, src, chunk_size, ei, fs, fs0, raised>>

\* a failed fetch logged and the table kept with the rows read so far
FetchRaisesKeepsTable ==
    /\ pc = "fetch"
    /\ raised' = "read"
    /\ EndOfTable(processed_records)
    /\ UNCHANGED <<cleanVars, conn, src, chunk_size, cursor, has_read_data, batches, progress,
                   processed_records, ei, fs, fs0>>

\* line 35 raises while fetching a chunk
FetchRaises ==
    /\ pc = "fetch"
    /\ Raise("read")
    /\ UNCHANGED <<cleanVars, conn, src, chunk_size, ti, cursor, has_read_data, batches, progress,
                   processed_records, processed_data, ei, fs, fs0>>

\* lines 43-44, and the call of line 94
Close ==
    /\ pc = "close"
    /\ conn' = "closed"
    /\ pc' = "makedirs"
    /\ UNCHANGED <<cleanVars, src, chunk_size, ti, cursor, has_read_data, batches, progress,
                   processed_records, processed_data, ei, fs, fs0, raised>>

\* lines 59-61
Makedirs ==
    /\ pc = "makedirs"
    /\ fs' = [fs EXCEPT !.dir = TRUE]
    /\ ei' = 1
    /\ pc' = IF processed_data = <<>> THEN "marker_open" ELSE "open"
    /\ UNCHANGED <<cleanVars, conn, src, chunk_size, ti, cursor, has_read_data, batches, progress,
                   processed_records, processed_data, fs0, raised>>

MakedirsRaises ==
    /\ pc = "makedirs"
    /\ Raise("makedirs")
    /\ UNCHANGED <<cleanVars, conn, src, chunk_size, ti, cursor, has_read_data, batches, progress,
                   processed_records, processed_data, ei, fs, fs0>>

\* line 64: open(output_file, 'w') creates or truncates the file
OpenFile ==
    /\ pc = "open"
    /\ fs' = [fs EXCEPT !.file[processed_data[ei].table] = File("partial", <<>>)]
    /\ pc' = "dump"
    /\ UNCHANGED <<cleanVars, conn, src, chunk_size, ti, cursor, has_read_data, batches, progress,
                   processed_records, processed_data, ei, fs0, raised>>

OpenRaises ==
    /\ pc = "open"
    /\ Raise("open")
    /\ UNCHANGED <<cleanVars, conn, src, chunk_size, ti, cursor, has_read_data, batches, progress,
                   processed_records, processed_data, ei, fs, fs0>>

\* lines 65-66, then the next item of line 61 or line 69
DumpFile ==
    /\ pc = "dump"
    /\ JsonSerializable(processed_data[ei].data)
    /\ fs' = [fs EXCEPT !.file[processed_data[ei].table] =
                           File("written", processed_data[ei].data)]
    /\ IF ei < Len(processed_data)
       THEN ei' = ei + 1 /\ pc' = "open"
       ELSE ei' = ei /\ pc' = "marker_open"
    /\ UNCHANGED <<cleanVars, conn, src, chunk_size, ti, cursor, has_read_data, batches, progress,
                   processed_records, processed_data, fs0, raised>>

\* a failed json.dump logged and the export carried on
DumpRaisesCarriesOn ==
    /\ pc = "dump"
    /\ raised' = "dump"
    /\ IF ei < Len(processed_data)
       THEN ei' = ei + 1 /\ pc' = "open"
       ELSE ei' = ei /\ pc' = "marker_open"
    /\ UNCHANGED <<cleanVars, conn, src, chunk_size, ti, cursor, has_read_data, batches,
                   progress, processed_records, processed_data, fs, fs0>>

\* line 65 raises: the file stays as far as it was written
DumpRaises ==
    /\ pc = "dump"
    /\ Raise("dump")
    /\ UNCHANGED <<cleanVars, conn, src, chunk_size, ti, cursor, has_read_data, batches, progress,
                   processed_records, processed_data, ei, fs, fs0>>

\* line 69: open(marker, 'w') creates or truncates the marker
MarkerOpen ==
    /\ pc = "marker_open"
    /\ fs' = [fs EXCEPT !.marker = "empty"]
    /\ pc' = "marker_write"
    /\ UNCHANGED <<cleanVars, conn, src, chunk_size, ti, cursor, has_read_data, batches, progress,
                   processed_records, processed_data, ei, fs0, raised>>

MarkerOpenRaises ==
    /\ pc = "marker_open"
    /\ Raise("marker_open")
    /\ UNCHANGED <<cleanVars, conn, src, chunk_size, ti, cursor, has_read_data, batches, progress,
                   processed_records, processed_data, ei, fs, fs0>>

\* lines 70-72 and 95
MarkerWrite ==
    /\ pc = "marker_write"
    /\ fs' = [fs EXCEPT !.marker = "written"]
    /\ pc' = "done"
    /\ UNCHANGED <<cleanVars, conn, src, chunk_size, ti, cursor, has_read_data, batches, progress,
                   processed_records, processed_data, ei, fs0, raised>>

MarkerWriteRaises ==
    /\ pc = "marker_write"
    /\ Raise("marker_write")
    /\ UNCHANGED <<cleanVars, conn, src, chunk_size, ti, cursor, has_read_data, batches, progress,
                   processed_records, processed_data, ei, fs, fs0>>

Next ==
    \/ Connect \/ ConnectRaises
    \/ CountQuery \/ CountQueryRaises
    \/ FetchChunk \/ FetchRaises
    \/ Close
    \/ Makedirs \/ MakedirsRaises
    \/ OpenFile \/ OpenRaises
    \/ DumpFile \/ DumpRaises
    \/ MarkerOpen \/ MarkerOpenRaises
    \/ MarkerWrite \/ MarkerWriteRaises

Spec == Init /\ [][Next]_vars

----------------------------------------------------------------------------
(* Properties.                                                             *)

Finished(t) == \E j \in 1..Len(processed_data) : processed_data[j].table = t

\* the record list extract_tables built for a finished table
DataOf(t) == processed_data[CHOOSE j \in 1..Len(processed_data) : processed_data[j].table = t].data

AllFilesWritten ==
    \A t \in TableNames : Finished(t) /\ fs.file[t] = File("written", DataOf(t))

MarkerTouched == fs.marker \in {"empty", "written"}

Terminated == pc \in {"done", "failed"}

IsZero(c) == c.k \in {"int", "float"} /\ c.n = 0

\* C1: the marker is created or written only once every per-table file of
\* the run has been completely written, and a run whose open or json.dump
\* of a per-table file raised leaves the marker as it found it.
C1_MarkerAfterAllFiles ==
    /\ MarkerTouched => AllFilesWritten
    /\ raised \in {"open", "dump"} => pc = "failed" /\ fs.marker = fs0.marker

C1_Witness ==
    /\ pc = "done"
    /\ fs.marker = "written"
    /\ \A t \in TableNames : fs.file[t].st = "written" /\ fs.file[t].data # <<>>

\* C2: whatever the output directory held before the run, a run in which
\* the extraction or the export of a table failed ends with no marker in
\* the directory, and a run in which all succeeded ends with the marker and
\* with every table's file holding the table's full dataset.
C2_MarkerIffAllExported ==
    /\ pc = "failed" /\ raised \in {"count", "read", "open", "dump"} => ~MarkerExists(fs)
    /\ pc = "done" => MarkerExists(fs) /\ AllFilesWritten

\* C3: when the extraction of a table fails (its count query or the read of
\* one of its chunks raises) the run aborts and the output directory is as
\* the run found it: no file created or overwritten, no marker written.
C3_ExtractionFailureLeavesDirectory ==
    raised \in {"count", "read"} => pc = "failed" /\ fs = fs0

C3_Witness ==
    /\ pc = "failed"
    /\ raised = "read"
    /\ ti > 1
    /\ processed_data[1].data # <<>>
    /\ processed_records # <<>>

\* the chunk that holds row i when the rows are read c at a time
ChunkOf(rows, c, i) ==
    LET first == ((i - 1) \div c) * c + 1
        last == IF first + c - 1 <= Len(rows) THEN first + c - 1 ELSE Len(rows)
    IN  SubSeq(rows, first, last)

\* the cleaned form of row i: its record in the cleaned chunk that holds it
CleanedRow(rows, c, i) == CleanedRecords(ChunkOf(rows, c, i))[((i - 1) % c) + 1]

\* C4: the record list of every extracted table has one record per source
\* row, and its i-th record is the cleaned form of the i-th source row; the
\* file written for the table holds that list.
C4_RecordsAreRowsInOrder ==
    /\ \A j \in 1..Len(processed_data) :
          LET rows == src[processed_data[j].table].rows
              data == processed_data[j].data
          IN  /\ Len(data) = Len(rows)
              /\ \A i \in 1..Len(rows) : data[i] = CleanedRow(rows, chunk_size, i)
    /\ pc = "fetch" =>
          /\ Len(processed_records) = cursor
          /\ \A i \in 1..cursor : processed_records[i] = CleanedRow(src[table].rows, chunk_size, i)
    /\ \A t \in TableNames : fs.file[t].st = "written" => fs.file[t].data = DataOf(t)

C4_Witness ==
    /\ pc = "done"
    /\ chunk_size = 2
    /\ Len(src[tables[1]].rows) = 5
    /\ Len(fs.file[tables[1]].data) = 5
    /\ \E i \in 1..4 : src[tables[1]].rows[i] # src[tables[1]].rows[i + 1]

\* C5: the record list of every extracted table equals the list obtained by
\* cleaning the whole table as one batch, whatever the chunk size.
C5_BatchSizeInvariance ==
    \A j \in 1..Len(processed_data) :
        processed_data[j].data = CleanedRecords(src[processed_data[j].table].rows)

CeilDiv(n, c) == (n + c - 1) \div c

NonDecreasing(q) == \A i \in 1..Len(q) - 1 : q[i] <= q[i + 1]

\* C9: for a table of n rows read c at a time, clean_dataframe is called on
\* exactly ceil(n/c) non-empty chunks, every chunk has at most c rows, every
\* chunk but the last exactly c, and the logged cumulative counts never
\* decrease and end at n.
C9_ChunkSizes ==
    \A t \in TableNames :
        LET b == batches[t]
            p == progress[t]
            n == Len(src[t].rows)
        IN  /\ \A i \in 1..Len(b) : b[i] <= chunk_size
            /\ \A i \in 1..Len(b) - 1 : b[i] = chunk_size
            /\ Len(p) = Len(b)
            /\ NonDecreasing(p)
            /\ Finished(t) =>
                  /\ Cardinality({i \in 1..Len(b) : b[i] > 0}) = CeilDiv(n, chunk_size)
                  /\ Len(p) > 0
                  /\ p[Len(p)] = n

C9_Witness ==
    /\ Finished(tables[1])
    /\ chunk_size = 2
    /\ batches[tables[1]] = <<2, 2, 1>>
    /\ progress[tables[1]] = <<2, 4, 5>>

\* C8: a count query that fails on a table the source holds does not abort
\* the run.
C8_CountFailureDoesNotAbort ==
    ~(pc = "failed" /\ raised = "count" /\ src[table].exists)

\* C10: no run ends, normally or by an exception, with the source
\* connection open.
C10_ConnectionClosedAtEnd ==
    Terminated => conn # "open"

\* C6: no cell of the records of a cleaned DataFrame is None, NaN, NaT or
\* infinite, and every source cell that was one of these is 0.
C6_NoMissingOrInfiniteCell ==
    cpc = "records" =>
        \A i \in 1..Len(df.rows) : \A c \in columns :
            /\ records[i][c].k \notin {"None", "nan", "NaT", "inf"}
            /\ df.rows[i][c].k \in {"None", "nan", "NaT", "inf"} => IsZero(records[i][c])

\* C7: in the records of a cleaned DataFrame every cell of a datetime64
\* column is 0 where the source cell was missing and otherwise the
\* YYYY-MM-DD string of the source cell's calendar date, also when the
\* column holds both missing and non-missing cells.
C7_TemporalCellsFormatted ==
    cpc = "records" =>
        \A c \in columns : df.dtype[c] = "datetime64" =>
            \A i \in 1..Len(df.rows) :
                LET given == df.rows[i][c]
                    got == records[i][c]
                IN  IF isna(given) THEN IsZero(got)
                    ELSE /\ got.k = "str"
                         /\ IsYMD(got.s)
                         /\ ParseYMD(got.s) = <<given.d[1], given.d[2], given.d[3]>>

====
